---- MODULE Spec2Model ----
(***************************************************************************)
(* The parallel UCT search of UctPlayer (src/player/uct_player.h).        *)
(*                                                                         *)
(* One call of NextMoveWithPlayableBoard on a player whose transposition  *)
(* table is empty: thread_count workers run SearchAndModifyNodes against  *)
(* the shared table, the shared atomic counter and the mutex; the caller  *)
(* joins them and calls BestChild.  Every access of a worker to shared    *)
(* memory (table, records, counter, mutex) is one step; what a worker     *)
(* does on its own board copy is folded into the neighbouring step.       *)
(*                                                                         *)
(* The board, the playout and the table container are not part of the     *)
(* file; they are modelled as the small abstract game described at the    *)
(* definitions below.  Profits are exact rationals <<num, den>>.          *)
(***************************************************************************)
EXTENDS Integers, Sequences, FiniteSets, TLC

\* ------------------------------------------------------------- bounds
MaxThreads == 2     \* thread_count ranges over 1..MaxThreads
MaxTarget == 3      \* mc_game_count_per_move ranges over 0..MaxTarget
MaxPoints == 2      \* the board has 1..MaxPoints points
GameLen == 2        \* a game is over after GameLen moves (or two passes)
WideThreads == 3    \* thread_count of the wide search
WideTarget == 2     \* its target
DeepTarget == 5     \* target of the deep search (two workers, one point)
FairTarget == 2     \* targets 0..FairTarget of the fairly scheduled search
PickThreads == 4    \* thread_count of the search with more workers than moves
PickTarget == 1     \* its target

\* ---------------------------------------------------------- constants
POSITION_INDEX_PASS == 0
NoThread == -1      \* the mutex is free
NoMove == -2        \* BestChild has not run
Aborted == -3       \* BestChild's assertion failed

VARIABLES
  thread_count,     \* thread_count_
  target,           \* mc_game_count_per_move_
  points,           \* number of points of the board (BoardLenSquare)
  suicides,         \* points that are a suicide for whoever plays them
  replaces,         \* whether Insert replaces a record that is there already
  table,            \* transposition_table_: board -> NodeRecord
  mc_game_count,    \* current_mc_game_count
  mutex,            \* mutex_: the worker holding it, or NoThread
  mainPc,           \* where NextMoveWithPlayableBoard is
  result,           \* what it returned
  pc,               \* per worker: where it is
  board,            \* per worker: its board copy (the moves played from the root)
  depth,            \* per worker: the frame of the visit routine that is running
  new_profit,       \* per worker: new_profit of the running frame
  tmp,              \* per worker: previous_profit / partial modified_profit
  vread             \* per worker: the value GetVisitedTime() returned

vars == <<thread_count, target, points, suicides, replaces, table, mc_game_count, mutex,
          mainPc, result, pc, board, depth, new_profit, tmp, vread>>

config == <<thread_count, target, points, suicides, replaces>>
locals == <<new_profit, tmp, vread>>

Workers == 0 .. (thread_count - 1)

\* ------------------------------------------------------------ rationals
Abs(n) == IF n < 0 THEN -n ELSE n

RECURSIVE GCD(_, _)
GCD(a, b) == IF b = 0 THEN a ELSE GCD(b, a % b)

Rat(n, d) ==
  LET g == GCD(Abs(n), d) IN <<n \div g, d \div g>>

Zero == <<0, 1>>
One == <<1, 1>>
RAdd(x, y) == Rat(x[1] * y[2] + y[1] * x[2], x[2] * y[2])
RSub(x, y) == Rat(x[1] * y[2] - y[1] * x[2], x[2] * y[2])
RScale(x, n) == Rat(x[1] * n, x[2])
RDivInt(x, n) == Rat(x[1], x[2] * n)
RLeq(x, y) == x[1] * y[2] <= y[1] * x[2]

\* ------------------------------------------------------------ the board
\* A board is the sequence of moves played from the root position; black is
\* to move at the root.  A move is a point 1..points or POSITION_INDEX_PASS.
Root == <<>>

Last(s) == s[Len(s)]

Range(s) == {s[i] : i \in 1 .. Len(s)}

NextForce(b) == IF Len(b) % 2 = 0 THEN "BLACK" ELSE "WHITE"

LastForce(b) == IF Len(b) % 2 = 1 THEN "BLACK" ELSE "WHITE"

IsEnd(b) ==
  \/ Len(b) >= GameLen
  \/ /\ Len(b) >= 2
     /\ b[Len(b)] = POSITION_INDEX_PASS
     /\ b[Len(b) - 1] = POSITION_INDEX_PASS

RECURSIVE SeqOfFree(_, _, _)
SeqOfFree(b, p, n) ==
  IF p > n THEN <<>>
  ELSE IF p \in Range(b) THEN SeqOfFree(b, p + 1, n)
  ELSE <<p>> \o SeqOfFree(b, p + 1, n)

\* PlayableIndexes: the free points, in increasing order.
PlayableIndexes(b) == SeqOfFree(b, 1, points)

IsSuicide(b, m) == m \in suicides

Play(b, m) == Append(b, m)

Pass(b) == Append(b, POSITION_INDEX_PASS)

\* ------------------------------------------------------------ the table
NodeRecord(v, p, s) == [visits |-> v, average_profit |-> p, in_search |-> s]

Get(tbl, b) == b \in DOMAIN tbl

GetChild(tbl, b, m) == Play(b, m) \in DOMAIN tbl

InsertFresh(tbl, b, rec) ==
  [k \in DOMAIN tbl \cup {b} |-> IF k = b THEN rec ELSE tbl[k]]

\* ------------------------------------------------------------ Ucb
\* Fixed point, in thousandths: 1000 * ln(n) and the integer square root.
LnTable ==
  <<0, 693, 1099, 1386, 1609, 1792, 1946, 2079, 2197, 2303,
    2398, 2485, 2565, 2639, 2708, 2773, 2833, 2890, 2944, 2996>>

RECURSIVE LnMilli(_)
LnMilli(n) ==
  IF n <= Len(LnTable) THEN LnTable[n] ELSE LnMilli(n \div 2) + LnTable[2]

RECURSIVE SqrtBetween(_, _, _)
SqrtBetween(x, lo, hi) ==
  IF lo >= hi THEN lo
  ELSE LET mid == (lo + hi + 1) \div 2
       IN IF mid * mid <= x THEN SqrtBetween(x, mid, hi)
          ELSE SqrtBetween(x, lo, mid - 1)

ISqrt(x) == SqrtBetween(x, 0, 4096)

Milli(x) == (x[1] * 1000) \div x[2]

\* Ucb, in thousandths: average_profit + sqrt(2 * log(sum) / visits).
Ucb(node_record, visited_count_sum) ==
  Milli(node_record.average_profit)
    + ISqrt((2 * LnMilli(visited_count_sum) * 1000) \div node_record.visits)

\* GetRegionRatio: the share of the board's points that is force's region.
GetRegionRatio(black_region, force) ==
  LET black_ratio == Rat(black_region, points)
  IN IF force = "BLACK" THEN black_ratio ELSE RSub(One, black_ratio)

\* ------------------------------------------------------------ MaxUcbChild
\* The first loop: the moves without a record, and the visits of the moves
\* with one that come before the first move without.
RECURSIVE CountLoop(_, _, _, _, _)
CountLoop(tbl, b, playable, i, acc) ==
  IF i > Len(playable) THEN acc
  ELSE LET m == playable[i]
       IN IF ~GetChild(tbl, b, m)
          THEN CountLoop(tbl, b, playable, i + 1,
                 [acc EXCEPT !.null_indexes = Append(@, m)])
          ELSE IF acc.null_indexes = <<>>
          THEN CountLoop(tbl, b, playable, i + 1,
                 [acc EXCEPT !.visited_count_sum = @ + tbl[Play(b, m)].visits])
          ELSE CountLoop(tbl, b, playable, i + 1, acc)

\* The second loop: the first move of greatest Ucb among those whose record is
\* not in search and that are no suicide; POSITION_INDEX_PASS if there is none.
RECURSIVE UcbLoop(_, _, _, _, _, _, _)
UcbLoop(tbl, b, playable, sum, i, max_ucb, max_ucb_index) ==
  IF i > Len(playable) THEN max_ucb_index
  ELSE LET m == playable[i]
       IN IF ~GetChild(tbl, b, m) \/ tbl[Play(b, m)].in_search
          THEN UcbLoop(tbl, b, playable, sum, i + 1, max_ucb, max_ucb_index)
          ELSE LET ucb == Ucb(tbl[Play(b, m)], sum)
               IN IF ucb > max_ucb /\ ~IsSuicide(b, m)
                  THEN UcbLoop(tbl, b, playable, sum, i + 1, ucb, m)
                  ELSE UcbLoop(tbl, b, playable, sum, i + 1, max_ucb,
                               max_ucb_index)

NullChoice(null_indexes, thread_index) ==
  LET index == thread_index % thread_count
  IN IF index < Len(null_indexes) THEN null_indexes[index + 1]
     ELSE null_indexes[1]

\* The second loop without the test of in_search.
RECURSIVE UcbLoopAnyChild(_, _, _, _, _, _, _)
UcbLoopAnyChild(tbl, b, playable, sum, i, max_ucb, max_ucb_index) ==
  IF i > Len(playable) THEN max_ucb_index
  ELSE LET m == playable[i]
       IN IF ~GetChild(tbl, b, m)
          THEN UcbLoopAnyChild(tbl, b, playable, sum, i + 1, max_ucb,
                               max_ucb_index)
          ELSE LET ucb == Ucb(tbl[Play(b, m)], sum)
               IN IF ucb > max_ucb /\ ~IsSuicide(b, m)
                  THEN UcbLoopAnyChild(tbl, b, playable, sum, i + 1, ucb, m)
                  ELSE UcbLoopAnyChild(tbl, b, playable, sum, i + 1, max_ucb,
                                       max_ucb_index)

MaxUcbChildAnyChild(tbl, b, thread_index) ==
  LET playable == PlayableIndexes(b)
      first == CountLoop(tbl, b, playable, 1,
                 [null_indexes |-> <<>>, visited_count_sum |-> 0])
  IN IF first.null_indexes # <<>>
     THEN NullChoice(first.null_indexes, thread_index)
     ELSE UcbLoopAnyChild(tbl, b, playable, first.visited_count_sum, 1, -1000,
                          POSITION_INDEX_PASS)

MaxUcbChild(tbl, b, thread_index) ==
  LET playable == PlayableIndexes(b)
      first == CountLoop(tbl, b, playable, 1,
                 [null_indexes |-> <<>>, visited_count_sum |-> 0])
  IN IF first.null_indexes # <<>>
     THEN NullChoice(first.null_indexes, thread_index)
     ELSE UcbLoop(tbl, b, playable, first.visited_count_sum, 1, -1000,
                  POSITION_INDEX_PASS)

\* ------------------------------------------------------------ BestChild
RECURSIVE BestLoop(_, _, _, _, _)
BestLoop(tbl, b, playable, i, best) ==
  IF i > Len(playable) THEN best.most_visited_index
  ELSE LET m == playable[i]
       IN IF ~GetChild(tbl, b, m) THEN Aborted
          ELSE IF tbl[Play(b, m)].visits > best.max_visited_count
          THEN BestLoop(tbl, b, playable, i + 1,
                 [max_visited_count |-> tbl[Play(b, m)].visits,
                  most_visited_index |-> m])
          ELSE BestLoop(tbl, b, playable, i + 1, best)

\* BestChild with the assertion dropped and a move without a record skipped.
RECURSIVE SkipLoop(_, _, _, _, _)
SkipLoop(tbl, b, playable, i, best) ==
  IF i > Len(playable) THEN best.most_visited_index
  ELSE LET m == playable[i]
       IN IF GetChild(tbl, b, m)
             /\ tbl[Play(b, m)].visits > best.max_visited_count
          THEN SkipLoop(tbl, b, playable, i + 1,
                 [max_visited_count |-> tbl[Play(b, m)].visits,
                  most_visited_index |-> m])
          ELSE SkipLoop(tbl, b, playable, i + 1, best)

BestChildSkipsMissing(tbl, b) ==
  SkipLoop(tbl, b, PlayableIndexes(b), 1,
           [max_visited_count |-> -1, most_visited_index |-> NoMove])

\* BestChild with >= for >: of the moves of greatest visits the last one wins.
RECURSIVE LastWinsLoop(_, _, _, _, _)
LastWinsLoop(tbl, b, playable, i, best) ==
  IF i > Len(playable) THEN best.most_visited_index
  ELSE LET m == playable[i]
       IN IF ~GetChild(tbl, b, m) THEN Aborted
          ELSE IF tbl[Play(b, m)].visits >= best.max_visited_count
          THEN LastWinsLoop(tbl, b, playable, i + 1,
                 [max_visited_count |-> tbl[Play(b, m)].visits,
                  most_visited_index |-> m])
          ELSE LastWinsLoop(tbl, b, playable, i + 1, best)

BestChildLastWins(tbl, b) ==
  LastWinsLoop(tbl, b, PlayableIndexes(b), 1,
               [max_visited_count |-> -1, most_visited_index |-> NoMove])

BestChild(tbl, b) ==
  BestLoop(tbl, b, PlayableIndexes(b), 1,
           [max_visited_count |-> -1, most_visited_index |-> NoMove])

\* ------------------------------------------------------------ Insert
\* Insert of a board that has a record already is undefined: with one table
\* the record that is there stays, with another the new one replaces it.
Insert(tbl, b, rec) ==
  IF b \in DOMAIN tbl /\ ~replaces THEN tbl ELSE InsertFresh(tbl, b, rec)

\* ------------------------------------------------------------ initial states
InitWith(threads, targets, sizes, suicidal, tables) ==
  /\ thread_count \in threads
  /\ target \in targets
  /\ points \in sizes
  /\ suicides \in SUBSET (suicidal \cap (1 .. points))
  /\ replaces \in tables
  /\ table = <<>>
  /\ mc_game_count = 0
  /\ mutex = NoThread
  /\ mainPc = "call"
  /\ result = NoMove
  /\ pc = [w \in Workers |-> "idle"]
  /\ board = [w \in Workers |-> Root]
  /\ depth = [w \in Workers |-> 0]
  /\ new_profit = [w \in Workers |-> Zero]
  /\ tmp = [w \in Workers |-> Zero]
  /\ vread = [w \in Workers |-> 0]

Init ==
  InitWith(1 .. MaxThreads, 0 .. MaxTarget, 1 .. MaxPoints, 1 .. MaxPoints,
           BOOLEAN)

\* ------------------------------------------------------------ the caller
\* NextMoveWithPlayableBoard: the counter is set to 0 and the workers start.
Spawn ==
  /\ mainPc = "call"
  /\ mainPc' = "wait"
  /\ mc_game_count' = 0
  /\ pc' = [w \in Workers |-> "loop"]
  /\ UNCHANGED <<config, table, mutex, result, board, depth, locals>>

\* future.wait() of every worker (LogProfits only builds a lambda).
Join ==
  /\ mainPc = "wait"
  /\ \A w \in Workers : pc[w] = "done"
  /\ mainPc' = "best"
  /\ UNCHANGED <<config, table, mc_game_count, mutex, result, pc, board, depth,
                 locals>>

ReturnBestChild ==
  /\ mainPc = "best"
  /\ result' = BestChild(table, Root)
  /\ mainPc' = IF result' = Aborted THEN "aborted" ELSE "returned"
  /\ UNCHANGED <<config, table, mc_game_count, mutex, pc, board, depth, locals>>

\* ------------------------------------------------------------ a worker
\* The record the running frame of w is about: node_record_ptr.
Key(w) == SubSeq(board[w], 1, depth[w])

\* LoopCheck with the loop left one playout early.
LoopCheckEarly(w) ==
  /\ pc[w] = "loop"
  /\ pc' = [pc EXCEPT ![w] = IF mc_game_count + 1 < target THEN "select"
                             ELSE "done"]
  /\ UNCHANGED <<config, table, mc_game_count, mutex, mainPc, result, board,
                 depth, locals>>

\* LoopCheck with <= for <: one more iteration at the target.
LoopCheckLate(w) ==
  /\ pc[w] = "loop"
  /\ pc' = [pc EXCEPT ![w] = IF mc_game_count <= target THEN "select"
                             ELSE "done"]
  /\ UNCHANGED <<config, table, mc_game_count, mutex, mainPc, result, board,
                 depth, locals>>

\* while (*mc_game_count_ptr < mc_game_count_per_move_)
LoopCheck(w) ==
  /\ pc[w] = "loop"
  /\ pc' = [pc EXCEPT ![w] = IF mc_game_count < target THEN "select" ELSE "done"]
  /\ UNCHANGED <<config, table, mc_game_count, mutex, mainPc, result, board,
                 depth, locals>>

\* MaxUcbChild: std::lock_guard<std::mutex> lock(mutex_)
LockSelect(w) ==
  /\ pc[w] = "select"
  /\ mutex = NoThread
  /\ mutex' = w
  /\ pc' = [pc EXCEPT ![w] = "selecting"]
  /\ UNCHANGED <<config, table, mc_game_count, mainPc, result, board, depth,
                 locals>>

\* The body of MaxUcbChild, the release of the mutex at its return, and Play of
\* the move on the worker's board.
Select(w) ==
  /\ pc[w] = "selecting"
  /\ mutex' = NoThread
  /\ board' = [board EXCEPT ![w] = Play(@, MaxUcbChild(table, @, w))]
  /\ depth' = [depth EXCEPT ![w] = @ + 1]
  /\ pc' = [pc EXCEPT ![w] = "get"]
  /\ UNCHANGED <<config, table, mc_game_count, mainPc, result, locals>>

\* node_record_ptr = transposition_table_.Get(*full_board_ptr)
GetRecord(w) ==
  /\ pc[w] = "get"
  /\ pc' = [pc EXCEPT ![w] = IF Get(table, Key(w)) THEN "mark" ELSE "count_new"]
  /\ UNCHANGED <<config, table, mc_game_count, mutex, mainPc, result, board,
                 depth, locals>>

\* CountNew that counts the playout twice.
CountNewTwice(w) ==
  /\ pc[w] = "count_new"
  /\ mc_game_count' = mc_game_count + 2
  /\ pc' = [pc EXCEPT ![w] = "insert"]
  /\ UNCHANGED <<config, table, mutex, mainPc, result, board, depth, locals>>

\* No record: the playout, then ++(*mc_game_count_ptr).
CountNew(w) ==
  /\ pc[w] = "count_new"
  /\ mc_game_count' = mc_game_count + 1
  /\ pc' = [pc EXCEPT ![w] = "insert"]
  /\ UNCHANGED <<config, table, mutex, mainPc, result, board, depth, locals>>

\* The frame of w returns value to its caller: the loop of SearchAndModifyNodes
\* (which drops it) or the frame above (which is at the call of line 219).
Return(w, value) ==
  IF depth[w] = 1
  THEN /\ pc' = [pc EXCEPT ![w] = "loop"]
       /\ depth' = [depth EXCEPT ![w] = 0]
       /\ board' = [board EXCEPT ![w] = Root]
       /\ new_profit' = [new_profit EXCEPT ![w] = Zero]
  ELSE /\ pc' = [pc EXCEPT ![w] = "read_previous"]
       /\ depth' = [depth EXCEPT ![w] = @ - 1]
       /\ board' = board
       /\ new_profit' = [new_profit EXCEPT ![w] = value]

\* new_profit = GetRegionRatio(...); Insert(board, NodeRecord(1, new_profit,
\* false)); node_record_ptr is null, so the frame returns.  black_region is
\* the black region of the board the playout ended in.
InsertNew(w) ==
  /\ pc[w] = "insert"
  /\ \E black_region \in 0 .. points :
       LET profit == GetRegionRatio(black_region, LastForce(Key(w)))
       IN /\ table' = Insert(table, Key(w), NodeRecord(1, profit, FALSE))
          /\ Return(w, profit)
  /\ UNCHANGED <<config, mc_game_count, mutex, mainPc, result, tmp, vread>>

\* A record: mutex_.lock()
LockMark(w) ==
  /\ pc[w] = "mark"
  /\ mutex = NoThread
  /\ mutex' = w
  /\ pc' = [pc EXCEPT ![w] = "marking"]
  /\ UNCHANGED <<config, table, mc_game_count, mainPc, result, board, depth,
                 locals>>

\* Mark without mutex_.unlock().
MarkKeepsMutex(w) ==
  /\ pc[w] = "marking"
  /\ table' = [table EXCEPT ![Key(w)].in_search = TRUE]
  /\ IF IsEnd(board[w])
     THEN /\ pc' = [pc EXCEPT ![w] = "count_end"]
          /\ UNCHANGED <<board, depth>>
     ELSE IF PlayableIndexes(board[w]) = <<>>
     THEN /\ board' = [board EXCEPT ![w] = Pass(@)]
          /\ depth' = [depth EXCEPT ![w] = @ + 1]
          /\ pc' = [pc EXCEPT ![w] = "get"]
     ELSE /\ pc' = [pc EXCEPT ![w] = "select"]
          /\ UNCHANGED <<board, depth>>
  /\ UNCHANGED <<config, mc_game_count, mutex, mainPc, result, locals>>

\* SetIsInSearch(true); mutex_.unlock(); then the branch on IsEnd and on the
\* playable indexes, with Pass on the worker's board when there are none.
Mark(w) ==
  /\ pc[w] = "marking"
  /\ table' = [table EXCEPT ![Key(w)].in_search = TRUE]
  /\ mutex' = NoThread
  /\ IF IsEnd(board[w])
     THEN /\ pc' = [pc EXCEPT ![w] = "count_end"]
          /\ UNCHANGED <<board, depth>>
     ELSE IF PlayableIndexes(board[w]) = <<>>
     THEN /\ board' = [board EXCEPT ![w] = Pass(@)]
          /\ depth' = [depth EXCEPT ![w] = @ + 1]
          /\ pc' = [pc EXCEPT ![w] = "get"]
     ELSE /\ pc' = [pc EXCEPT ![w] = "select"]
          /\ UNCHANGED <<board, depth>>
  /\ UNCHANGED <<config, mc_game_count, mainPc, result, locals>>

\* CountEnd without the increment of the counter.
CountEndForgets(w) ==
  /\ pc[w] = "count_end"
  /\ pc' = [pc EXCEPT ![w] = "read_end"]
  /\ UNCHANGED <<config, table, mc_game_count, mutex, mainPc, result, board,
                 depth, locals>>

\* The board is over: ++(*mc_game_count_ptr)
CountEnd(w) ==
  /\ pc[w] = "count_end"
  /\ mc_game_count' = mc_game_count + 1
  /\ pc' = [pc EXCEPT ![w] = "read_end"]
  /\ UNCHANGED <<config, table, mutex, mainPc, result, board, depth, locals>>

\* new_profit = node_record_ptr->GetAverageProfit()
ReadEnd(w) ==
  /\ pc[w] = "read_end"
  /\ new_profit' = [new_profit EXCEPT ![w] = table[Key(w)].average_profit]
  /\ pc' = [pc EXCEPT ![w] = "read_visits"]
  /\ UNCHANGED <<config, table, mc_game_count, mutex, mainPc, result, board,
                 depth, tmp, vread>>

\* ReadPrevious that takes what the call returned as the sample.
ReadPreviousSameSide(w) ==
  /\ pc[w] = "read_previous"
  /\ tmp' = [tmp EXCEPT ![w] = table[Key(w)].average_profit]
  /\ pc' = [pc EXCEPT ![w] = "read_times"]
  /\ UNCHANGED <<config, table, mc_game_count, mutex, mainPc, result, board,
                 depth, new_profit, vread>>

\* new_profit = 1.0f - (what the call returned);
\* previous_profit = node_record_ptr->GetAverageProfit()
ReadPrevious(w) ==
  /\ pc[w] = "read_previous"
  /\ new_profit' = [new_profit EXCEPT ![w] = RSub(One, @)]
  /\ tmp' = [tmp EXCEPT ![w] = table[Key(w)].average_profit]
  /\ pc' = [pc EXCEPT ![w] = "read_times"]
  /\ UNCHANGED <<config, table, mc_game_count, mutex, mainPc, result, board,
                 depth, vread>>

\* previous_profit * node_record_ptr->GetVisitedTime() + new_profit
ReadTimes(w) ==
  /\ pc[w] = "read_times"
  /\ tmp' = [tmp EXCEPT ![w] = RAdd(RScale(@, table[Key(w)].visits), new_profit[w])]
  /\ pc' = [pc EXCEPT ![w] = "read_divisor"]
  /\ UNCHANGED <<config, table, mc_game_count, mutex, mainPc, result, board,
                 depth, new_profit, vread>>

\* ReadDivisor that divides by the visits instead of the visits plus one.
ReadDivisorNoPlusOne(w) ==
  /\ pc[w] = "read_divisor"
  /\ tmp' = [tmp EXCEPT ![w] = RDivInt(@, table[Key(w)].visits)]
  /\ pc' = [pc EXCEPT ![w] = "write_profit"]
  /\ UNCHANGED <<config, table, mc_game_count, mutex, mainPc, result, board,
                 depth, new_profit, vread>>

\* ... / (node_record_ptr->GetVisitedTime() + 1)
ReadDivisor(w) ==
  /\ pc[w] = "read_divisor"
  /\ tmp' = [tmp EXCEPT ![w] = RDivInt(@, table[Key(w)].visits + 1)]
  /\ pc' = [pc EXCEPT ![w] = "write_profit"]
  /\ UNCHANGED <<config, table, mc_game_count, mutex, mainPc, result, board,
                 depth, new_profit, vread>>

\* node_record_ptr->SetAverageProfit(modified_profit)
WriteProfit(w) ==
  /\ pc[w] = "write_profit"
  /\ table' = [table EXCEPT ![Key(w)].average_profit = tmp[w]]
  /\ tmp' = [tmp EXCEPT ![w] = Zero]
  /\ pc' = [pc EXCEPT ![w] = "read_visits"]
  /\ UNCHANGED <<config, mc_game_count, mutex, mainPc, result, board, depth,
                 new_profit, vread>>

\* node_record_ptr->GetVisitedTime() + 1
ReadVisits(w) ==
  /\ pc[w] = "read_visits"
  /\ vread' = [vread EXCEPT ![w] = table[Key(w)].visits]
  /\ pc' = [pc EXCEPT ![w] = "write_visits"]
  /\ UNCHANGED <<config, table, mc_game_count, mutex, mainPc, result, board,
                 depth, new_profit, tmp>>

\* node_record_ptr->SetVisitedTimes(...)
WriteVisits(w) ==
  /\ pc[w] = "write_visits"
  /\ table' = [table EXCEPT ![Key(w)].visits = vread[w] + 1]
  /\ vread' = [vread EXCEPT ![w] = 0]
  /\ pc' = [pc EXCEPT ![w] = "clear"]
  /\ UNCHANGED <<config, mc_game_count, mutex, mainPc, result, board, depth,
                 new_profit, tmp>>

\* node_record_ptr != nullptr: std::lock_guard<std::mutex> lock(mutex_)
LockClear(w) ==
  /\ pc[w] = "clear"
  /\ mutex = NoThread
  /\ mutex' = w
  /\ pc' = [pc EXCEPT ![w] = "clearing"]
  /\ UNCHANGED <<config, table, mc_game_count, mainPc, result, board, depth,
                 locals>>

\* Clear with the record left marked.
ClearKeepsMark(w) ==
  /\ pc[w] = "clearing"
  /\ table' = table
  /\ mutex' = NoThread
  /\ Return(w, new_profit[w])
  /\ UNCHANGED <<config, mc_game_count, mainPc, result, tmp, vread>>

\* SetIsInSearch(false), the release of the mutex, return new_profit
Clear(w) ==
  /\ pc[w] = "clearing"
  /\ table' = [table EXCEPT ![Key(w)].in_search = FALSE]
  /\ mutex' = NoThread
  /\ Return(w, new_profit[w])
  /\ UNCHANGED <<config, mc_game_count, mainPc, result, tmp, vread>>

Next ==
  \/ Spawn
  \/ Join
  \/ ReturnBestChild
  \/ \E w \in Workers : LoopCheck(w)
  \/ \E w \in Workers : LockSelect(w)
  \/ \E w \in Workers : Select(w)
  \/ \E w \in Workers : GetRecord(w)
  \/ \E w \in Workers : CountNew(w)
  \/ \E w \in Workers : InsertNew(w)
  \/ \E w \in Workers : LockMark(w)
  \/ \E w \in Workers : Mark(w)
  \/ \E w \in Workers : CountEnd(w)
  \/ \E w \in Workers : ReadEnd(w)
  \/ \E w \in Workers : ReadPrevious(w)
  \/ \E w \in Workers : ReadTimes(w)
  \/ \E w \in Workers : ReadDivisor(w)
  \/ \E w \in Workers : WriteProfit(w)
  \/ \E w \in Workers : ReadVisits(w)
  \/ \E w \in Workers : WriteVisits(w)
  \/ \E w \in Workers : LockClear(w)
  \/ \E w \in Workers : Clear(w)

Spec == Init /\ [][Next]_vars

\* Fair scheduling: the caller and every worker keep taking steps while they
\* can (a worker that waits for the mutex can take none).
WorkerStep(w) ==
  /\ w \in Workers
  /\ \/ LoopCheck(w) \/ LockSelect(w) \/ Select(w) \/ GetRecord(w)
     \/ CountNew(w) \/ InsertNew(w) \/ LockMark(w) \/ Mark(w) \/ CountEnd(w)
     \/ ReadEnd(w) \/ ReadPrevious(w) \/ ReadTimes(w) \/ ReadDivisor(w)
     \/ WriteProfit(w) \/ ReadVisits(w) \/ WriteVisits(w) \/ LockClear(w)
     \/ Clear(w)

Fairness ==
  /\ WF_vars(Spawn \/ Join \/ ReturnBestChild)
  /\ \A w \in 0 .. (MaxThreads - 1) : WF_vars(WorkerStep(w))

InitFair ==
  InitWith(1 .. MaxThreads, 0 .. FairTarget, 1 .. MaxPoints, 1 .. MaxPoints,
           BOOLEAN)

FairSpec == InitFair /\ [][Next]_vars /\ Fairness

\* The wide search: more workers than the root has moves.
InitWide == InitWith({WideThreads}, {WideTarget}, {MaxPoints}, {}, {FALSE})

SpecWide == InitWide /\ [][Next]_vars

\* The deep search: two workers that visit the same records again and again.
InitDeep == InitWith({MaxThreads}, {DeepTarget}, {1}, {}, {FALSE})

SpecDeep == InitDeep /\ [][Next]_vars

\* The search of PickThreads workers: more workers than the root has moves.
InitPick == InitWith({PickThreads}, {PickTarget}, {MaxPoints}, {}, {FALSE})

SpecPick == InitPick /\ [][Next]_vars

\* ------------------------------------------------------------ properties
AllJoined == mainPc \in {"best", "returned", "aborted"}

RootMoves == PlayableIndexes(Root)

RECURSIVE SumVisits(_, _)
SumVisits(tbl, keys) ==
  IF keys = {} THEN 0
  ELSE LET k == CHOOSE x \in keys : TRUE
       IN tbl[k].visits + SumVisits(tbl, keys \ {k})

\* w takes the step that leaves pc value at
Leaves(w, at) == pc[w] = at /\ pc'[w] # at

\* C2 as claimed: with a target of at least the number of legal root moves,
\* every legal root move has a record when BestChild is called.
C2_AllRootMovesRecorded ==
  (mainPc = "best" /\ target >= Len(RootMoves))
    => \A i \in 1 .. Len(RootMoves) : GetChild(table, Root, RootMoves[i])

\* C3 as claimed: once the workers are joined, the visits of the records of
\* the search add up to at least the target.
C3_VisitsReachTarget ==
  AllJoined => SumVisits(table, DOMAIN table) >= target

\* C4 as claimed: a worker inserts a record or writes a record's visits or
\* average_profit only while it holds the mutex, and no other worker writes
\* the record a worker is updating between its read of the old values and
\* its write of the new visits.
C4_WritesUnderMutex ==
  [][\A w \in Workers :
       /\ (Leaves(w, "insert") \/ Leaves(w, "write_profit")
            \/ Leaves(w, "write_visits")) => mutex = w
       /\ (/\ pc[w] \in {"read_times", "read_divisor", "write_profit",
                         "read_visits", "write_visits"}
           /\ pc'[w] = pc[w])
            => /\ table'[Key(w)].visits = table[Key(w)].visits
               /\ table'[Key(w)].average_profit = table[Key(w)].average_profit
    ]_vars

\* C5 as claimed: Insert is called only for a board that has no record.
C5_InsertOnlyAbsent ==
  [][\A w \in Workers : Leaves(w, "insert") => ~Get(table, Key(w))]_vars

\* C6 as claimed: every record's average_profit is in [0, 1].
C6_ProfitInRange ==
  \A k \in DOMAIN table :
    RLeq(Zero, table[k].average_profit) /\ RLeq(table[k].average_profit, One)

\* C7 as claimed: a record's visits is at least 1 and never decreases.
C7_VisitsMonotone ==
  [][\A k \in DOMAIN table' :
       /\ table'[k].visits >= 1
       /\ k \in DOMAIN table => table'[k].visits >= table[k].visits]_vars

\* C8 as claimed: the move MaxUcbChild returns is no suicide on the board it
\* was called with.
C8_NoSuicideSelected ==
  [][\A w \in Workers :
       Leaves(w, "selecting") => ~IsSuicide(board[w], Last(board'[w]))]_vars

\* C9: once the workers are joined, no record is marked in_search.
C9_NoneInSearchAfterJoin ==
  AllJoined => \A k \in DOMAIN table : ~table[k].in_search

\* C10: a move returned by NextMoveWithPlayableBoard is one of the root's
\* playable indexes.
C10_ReturnedMoveIsPlayable ==
  mainPc = "returned" => result \in Range(RootMoves)

\* C1 as claimed: every worker leaves its loop and NextMoveWithPlayableBoard
\* returns; a worker leaves its loop only when the counter is at the target.
C1_WorkersLeaveAndCallReturns ==
  /\ <>(mainPc = "returned")
  /\ [][\A w \in Workers :
          (pc[w] # "done" /\ pc'[w] = "done") => mc_game_count >= target]_vars

\* C1, amended: every worker leaves its loop and the caller gets to BestChild,
\* which returns a move or fails its assertion; a worker leaves its loop only
\* when the counter is at the target.
C1_WorkersLeaveAndCallEnds ==
  /\ <>(mainPc \in {"returned", "aborted"})
  /\ [][\A w \in Workers :
          (pc[w] # "done" /\ pc'[w] = "done") => mc_game_count >= target]_vars

\* ------------------------------------------------------------ witnesses
\* A search of MaxThreads workers with the greatest target has returned.
C1_Returned ==
  /\ mainPc = "returned"
  /\ thread_count = MaxThreads
  /\ target = FairTarget
  /\ mc_game_count >= target
  /\ \A w \in Workers : pc[w] = "done"

\* The workers are joined and a record was visited again (marked and
\* cleared) during the search of MaxThreads workers.
C9_JoinedAfterRevisit ==
  /\ AllJoined
  /\ thread_count = MaxThreads
  /\ \E k \in DOMAIN table : table[k].visits >= 2 /\ ~table[k].in_search

\* A search of MaxThreads workers returned a move that is not the first of
\* the root's playable indexes.
C10_ReturnedLaterMove ==
  /\ mainPc = "returned"
  /\ thread_count = MaxThreads
  /\ result \in Range(RootMoves)
  /\ result # RootMoves[1]

\* ------------------------------------------------------------ BestChild
\* visits of the record of the i-th playable index of the root
RootVisits(i) == table[Play(Root, RootMoves[i])].visits

\* C11: the move BestChild returned is a playable index of the root whose
\* record has the greatest visits of all of them, the first such index in
\* playable order; BestChild on the table as it stays gives that move again.
C11_BestChildIsFirstMostVisited ==
  mainPc = "returned" =>
    \E i \in 1 .. Len(RootMoves) :
      /\ result = RootMoves[i]
      /\ \A j \in 1 .. Len(RootMoves) : RootVisits(j) <= RootVisits(i)
      /\ \A j \in 1 .. (i - 1) : RootVisits(j) < RootVisits(i)
      /\ BestChild(table, Root) = result

\* BestChild returned the first of two moves whose records have the same
\* visits, more than one each.
C11_ReturnedFirstOfTie ==
  /\ mainPc = "returned"
  /\ Len(RootMoves) = 2
  /\ RootVisits(1) = RootVisits(2)
  /\ RootVisits(1) >= 2
  /\ result = RootMoves[1]

\* ------------------------------------------------------------ the update
\* C12: in a run of one worker, a visit of a record of a board that is not
\* over writes as average_profit (old average * old visits + sample) /
\* (old visits + 1), the old values being those of the record (nothing else
\* writes it during the visit), and then writes visits as old visits + 1 and
\* leaves the average as written.
C12_RunningMeanSingleThread ==
  [][thread_count = 1 =>
       \A w \in Workers :
         LET old == table[Key(w)]
         IN /\ Leaves(w, "write_profit")
                 => /\ table'[Key(w)].average_profit
                         = RDivInt(RAdd(RScale(old.average_profit, old.visits),
                                        new_profit[w]),
                                   old.visits + 1)
                    /\ table'[Key(w)].visits = old.visits
            /\ (Leaves(w, "write_visits") /\ ~IsEnd(Key(w)))
                 => /\ table'[Key(w)].visits = old.visits + 1
                    /\ table'[Key(w)].average_profit = old.average_profit
            /\ (/\ pc[w] \in {"read_times", "read_divisor", "read_visits"}
                /\ ~IsEnd(Key(w)))
                 => table' = table
    ]_vars

\* The one worker of a search has visited a record of a board that is not
\* over a second and a third time, with samples that differ: its average is
\* neither 0 nor 1 and its visits are 3.
C12_MeanOfThreeSamples ==
  /\ thread_count = 1
  /\ \E k \in DOMAIN table :
       /\ ~IsEnd(k)
       /\ table[k].visits = 3
       /\ table[k].average_profit \in {<<1, 3>>, <<2, 3>>}

\* C13: the sample a visit of a record merges into it is 1 minus the value
\* the visit of the chosen child returned; when that visit created the
\* child's record, the average_profit stored in it and the sample of the
\* parent add up to 1.
C13_SampleIsComplement ==
  [][\A w \in Workers :
       /\ Leaves(w, "read_previous")
            => new_profit'[w] = RSub(One, new_profit[w])
       /\ Leaves(w, "read_times")
            => /\ tmp'[w] = RAdd(RScale(tmp[w], table[Key(w)].visits),
                                 new_profit[w])
               /\ new_profit'[w] = new_profit[w]
       /\ (Leaves(w, "insert") /\ depth[w] > 1 /\ ~Get(table, Key(w)))
            => /\ pc'[w] = "read_previous"
               /\ Key(w)' = SubSeq(Key(w), 1, Len(Key(w)) - 1)
               /\ RAdd(table'[Key(w)].average_profit,
                       RSub(One, new_profit'[w])) = One
    ]_vars

\* A worker has the sample for a record whose child it has just created: the
\* child's record has one visit and the white player's average 1, so the
\* sample is 0.
C13_ParentSampleOfNewLeaf ==
  \E w \in Workers :
    /\ pc[w] = "read_times"
    /\ depth[w] = 1
    /\ Len(board[w]) = 2
    /\ table[board[w]].visits = 1
    /\ table[board[w]].average_profit = One
    /\ new_profit[w] = Zero

\* ------------------------------------------------------------ the selection
\* the moves of b without a record, in playable order
NullIndexes(tbl, b) ==
  CountLoop(tbl, b, PlayableIndexes(b), 1,
            [null_indexes |-> <<>>, visited_count_sum |-> 0]).null_indexes

\* C14 as claimed: when some legal move of the board has no record, the move
\* MaxUcbChild returns to worker w is the one at position w mod (number of
\* such moves) of the moves without a record.
C14_UnknownByWorkerModSize ==
  [][\A w \in Workers :
       LET null_indexes == NullIndexes(table, board[w])
       IN (Leaves(w, "selecting") /\ null_indexes # <<>>)
            => Last(board'[w]) = null_indexes[(w % Len(null_indexes)) + 1]
    ]_vars

\* ------------------------------------------------------------ a board that is over
\* w is in the visit of a record of a board that is over, past the mark
AtTerminalVisit(w) ==
  /\ depth[w] >= 1
  /\ IsEnd(Key(w))
  /\ pc[w] \in {"count_end", "read_end", "read_visits", "write_visits",
                "clear", "clearing"}

\* What a step of such a visit does to the counter, to the profit the visit
\* returns and to the record; visits_after(w, old) is the visits it leaves.
TerminalVisitStep(w, visits_after(_, _)) ==
  (AtTerminalVisit(w) /\ pc'[w] # pc[w]) =>
    /\ mc_game_count'
         = mc_game_count + (IF pc[w] = "count_end" THEN 1 ELSE 0)
    /\ pc[w] = "read_end" => new_profit'[w] = table[Key(w)].average_profit
    /\ (pc[w] # "read_end" /\ (pc[w] # "clearing" \/ depth[w] > 1))
         => new_profit'[w] = new_profit[w]
    /\ table'[Key(w)].average_profit = table[Key(w)].average_profit
    /\ table'[Key(w)].visits = visits_after(w, table[Key(w)].visits)

VisitsKept(w, old) == old
VisitsWritten(w, old) == IF pc[w] = "write_visits" THEN vread[w] + 1 ELSE old

\* C15 as claimed: a visit of a record of a board that is over adds exactly
\* one to mc_game_count, returns the record's average_profit and leaves the
\* record's visits and average_profit as they were.
C15_TerminalVisitLeavesRecord ==
  [][\A w \in Workers : TerminalVisitStep(w, VisitsKept)]_vars

\* C15, amended: a visit of a record of a board that is over adds exactly one
\* to mc_game_count, returns the record's average_profit and does not write
\* the average_profit; it does write the visits, as one more than it read.
C15_TerminalVisitCountsVisit ==
  [][\A w \in Workers : TerminalVisitStep(w, VisitsWritten)]_vars

\* A worker in the visit of a record of a board that is over has written its
\* visits and holds the record's average_profit as the profit to return.
C15_TerminalRecordVisitedAgain ==
  \E w \in Workers :
    /\ pc[w] = "clear"
    /\ IsEnd(Key(w))
    /\ table[Key(w)].visits >= 2
    /\ table[Key(w)].average_profit = One
    /\ new_profit[w] = One

\* C16: when every legal move of the board has a record, the move MaxUcbChild
\* returns is never one whose record is in search when the moves are gone
\* through, and it is POSITION_INDEX_PASS exactly when every legal move is a
\* suicide or has its record in search.
C16_SkipsInSearchAndPassesWhenNoneLeft ==
  [][\A w \in Workers :
       LET b == board[w]
           playable == PlayableIndexes(b)
           m == Last(board'[w])
           blocked(x) == table[Play(b, x)].in_search \/ IsSuicide(b, x)
       IN (Leaves(w, "selecting") /\ NullIndexes(table, b) = <<>>)
            => /\ m # POSITION_INDEX_PASS
                    => m \in Range(playable) /\ ~table[Play(b, m)].in_search
               /\ m = POSITION_INDEX_PASS
                    <=> \A i \in 1 .. Len(playable) : blocked(playable[i])
    ]_vars

\* A worker was given POSITION_INDEX_PASS at the root although no move is a
\* suicide: the record of every legal move was in search.
C16_PassedForInSearch ==
  \E w \in Workers :
    /\ pc[w] = "get"
    /\ board[w] = <<POSITION_INDEX_PASS>>
    /\ suicides = {}
    /\ \A i \in 1 .. Len(RootMoves) :
         GetChild(table, Root, RootMoves[i])
           /\ table[Play(Root, RootMoves[i])].in_search

\* ------------------------------------------------------------ the mark
\* The frames of w's visit that have marked their record and not cleared it:
\* all the frames below the running one, and the running one from its mark on.
MarkedFrames(w) ==
  IF pc[w] \in {"get", "count_new", "insert", "mark", "marking"}
  THEN 1 .. (depth[w] - 1)
  ELSE 1 .. depth[w]

\* C17 as claimed: the record of every visit that is between its mark and its
\* clear is in search, however many workers visit the record at once.
C17_InSearchWhileVisited ==
  \A w \in Workers :
    \A d \in MarkedFrames(w) : table[SubSeq(board[w], 1, d)].in_search

\* ------------------------------------------------------------ the mutex
\* C18: a worker that is about to acquire the mutex does not hold it; the
\* worker that holds it is inside one of the three locked regions, none of
\* which contains a call of the visit routine or of MaxUcbChild; and as long
\* as the call has not ended some step can be taken.
C18_NoSelfDeadlock ==
  /\ \A w \in Workers :
       /\ pc[w] \in {"select", "mark", "clear"} => mutex # w
       /\ mutex = w => pc[w] \in {"selecting", "marking", "clearing"}
  /\ mutex \in Workers \cup {NoThread}
  /\ mainPc \notin {"returned", "aborted"} => ENABLED Next

\* A worker waits for the mutex another worker holds, while it is itself
\* inside a visit (a frame above has called MaxUcbChild for it).
C18_WaitsInsideVisit ==
  \E w \in Workers :
    /\ pc[w] = "select"
    /\ depth[w] >= 1
    /\ mutex \in Workers \ {w}

\* ------------------------------------------------------------ the counter
\* w is inside a top-level call of the visit routine
InCall(w) == depth[w] >= 1

\* The call of w is on its way back: its deepest frame has counted.
Counted(w) ==
  pc[w] \in {"insert", "read_end", "read_visits", "write_visits", "clear",
             "clearing", "read_previous", "read_times", "read_divisor",
             "write_profit"}

\* C19: a top-level call of the visit routine adds to mc_game_count exactly
\* once.  A call goes down and then back; a step of the worker adds 1 exactly
\* when it turns the call around, which happens in the frame that found no
\* record for its board or in the frame of a record of a board that is over,
\* and nowhere else; it changes the counter at no other step; once turned
\* around, the call goes down no more; and the call returns to the loop only
\* after it has turned around.
C19_OneCountPerCall ==
  [][\A w \in Workers :
       pc'[w] # pc[w] =>
         LET turns == InCall(w) /\ ~Counted(w) /\ Counted(w)'
         IN /\ mc_game_count' = mc_game_count + (IF turns THEN 1 ELSE 0)
            /\ turns => pc[w] \in {"count_new", "count_end"}
            /\ pc'[w] = "count_new" => ~Get(table, Key(w))
            /\ pc'[w] = "count_end" => Get(table, Key(w)) /\ IsEnd(Key(w))
            /\ (Counted(w) /\ InCall(w)') => Counted(w)'
            /\ (Counted(w) /\ InCall(w)') => depth'[w] <= depth[w]
            /\ (InCall(w) /\ ~InCall(w)') => Counted(w)
            /\ ~InCall(w) => ~Counted(w)
    ]_vars

\* A worker is on its way back from a descent of two records: the count was
\* made at the lower one, and the call is at the upper one with the counter
\* at one more than the records the table had before.
C19_BackAtUpperFrame ==
  \E w \in Workers :
    /\ thread_count = 1
    /\ pc[w] = "write_profit"
    /\ depth[w] = 1
    /\ Len(board[w]) = 2
    /\ mc_game_count = 3

\* C20: mc_game_count never decreases while the workers run, and when every
\* worker has left its loop of a search with a target of at least 1 it is at
\* least the target and at most the target + thread_count - 1.
C20_CounterWithinOvershoot ==
  [][/\ mainPc = "wait" => mc_game_count' >= mc_game_count
     /\ ((\A w \in Workers : pc'[w] = "done") /\ target >= 1)
          => /\ target <= mc_game_count'
             /\ mc_game_count' <= target + thread_count - 1
    ]_vars

\* Every one of MaxThreads workers has left its loop and the counter is at
\* the greatest value: each worker had passed the test of the loop before
\* the last playout the target asked for was counted.
C20_GreatestOvershoot ==
  /\ thread_count = MaxThreads
  /\ target = MaxTarget
  /\ \A w \in Workers : pc[w] = "done"
  /\ mc_game_count = target + thread_count - 1

====
